---- MODULE Spec2Model ----
(***************************************************************************)
(* Model of src/app.py (Shibuya Re:balance Navi): the session state kept   *)
(* in st.session_state, the page handlers dispatched by main(), and the    *)
(* search pipeline filter_and_rank().                                      *)
(*                                                                         *)
(* One step of the model is one run of main(): Streamlit reruns the script *)
(* once per widget event.  An event is a click on a button, or a new       *)
(* choice in a selectbox, that the previous run put on the screen; a       *)
(* button returns True in this run only if this run reaches its st.button  *)
(* call.  goto() only assigns st.session_state.page: the new page is       *)
(* rendered by the next run.                                               *)
(*                                                                         *)
(* Numbers: a rating is held in tenths (4.5 -> 45), a coordinate in whole  *)
(* degrees, an angle in half degrees, a distance in whole km and a score   *)
(* in tenths (rating*2.0 - km*1.2 -> 2*rating - 12*km).  Display-only      *)
(* venue fields (name, area, genre, price, fee, address, ...) are left out.*)
(***************************************************************************)
EXTENDS Integers, Sequences, FiniteSets, TLC

VARIABLES
    restaurants,             \* load_restaurants(): the cached catalog
    page,                    \* st.session_state.page
    people,                  \* st.session_state.people (NonePeople: None)
    smoking,                 \* st.session_state.smoking
    arrival_min,             \* st.session_state.arrival_min
    selected_restaurant_id,  \* st.session_state.selected_restaurant_id
    view_mode,               \* st.session_state.view_mode
    last_results,            \* st.session_state.last_results
    user_lat,                \* st.session_state.user_lat
    user_lon,                \* st.session_state.user_lon
    widgets,                 \* the widgets the last run put on the screen
    alert,                   \* the st.error / st.info of the last run
    shown,                   \* ids of the venues whose data the last run rendered
    df,                      \* the DataFrame the last run computed (<<>>: none)
    clicked,                 \* the button whose st.button(...) was True in the last run
    fault                    \* the last run ended in an uncaught exception

vars == <<restaurants, page, people, smoking, arrival_min,
          selected_restaurant_id, view_mode, last_results, user_lat, user_lon,
          widgets, alert, shown, df, clicked, fault>>

session == <<page, people, smoking, arrival_min, selected_restaurant_id,
             view_mode, last_results, user_lat, user_lon>>

(***************************************************************************)
(* Bounds of the model                                                     *)
(***************************************************************************)
MaxCatalog == 2

\* ratings compared with a row, in tenths, and kilometres added to its distance
MaxRating == 50
MaxKmStep == 3

\* steps of the coordinate grid, in each direction
MaxGrid == 3

(***************************************************************************)
(* Settings / constants                                                    *)
(***************************************************************************)
NonePeople == 0
NoneId == "None"

DEFAULT_LAT == 36
DEFAULT_LON == 140

ARRIVAL_OPTIONS == << <<"now", 0>>, <<"15min", 15>>, <<"30min", 30>>, <<"60min", 60>> >>
ARRIVAL_LABELS == [i \in 1..Len(ARRIVAL_OPTIONS) |-> ARRIVAL_OPTIONS[i][1]]
ARRIVAL_LABEL_TO_MIN(label) ==
    ARRIVAL_OPTIONS[CHOOSE i \in 1..Len(ARRIVAL_OPTIONS) : ARRIVAL_OPTIONS[i][1] = label][2]
ARRIVAL_MIN_TO_LABEL(minutes, default) ==
    IF \E i \in 1..Len(ARRIVAL_OPTIONS) : ARRIVAL_OPTIONS[i][2] = minutes
    THEN ARRIVAL_OPTIONS[CHOOSE i \in 1..Len(ARRIVAL_OPTIONS) : ARRIVAL_OPTIONS[i][2] = minutes][1]
    ELSE default

PEOPLE_OPTIONS == <<NonePeople, 1, 2, 3, 4, 5, 6, 7, 8>>

Range(s) == {s[i] : i \in 1..Len(s)}

(***************************************************************************)
(* Utilities: haversine_km in fixed point.  Angles are in half degrees, so *)
(* math.radians(lat) is 2*lat and dlat/2 is lat2 - lat1; sines and cosines *)
(* are scaled by 10^4 (Bhaskara's rational approximation), the arc c is in *)
(* units of 10^-4 rad.                                                     *)
(***************************************************************************)
SinPos(h) == (40000 * h * (360 - h)) \div (162000 - h * (360 - h))

Sin(h) ==
    LET m == h % 720
    IN  IF m <= 360 THEN SinPos(m) ELSE 0 - SinPos(m - 360)

Cos(h) == Sin(180 - h)

RECURSIVE SqrtSearch(_, _, _)
SqrtSearch(n, lo, hi) ==
    IF lo >= hi THEN lo
    ELSE LET mid == (lo + hi + 1) \div 2
         IN  IF mid * mid <= n THEN SqrtSearch(n, mid, hi)
             ELSE SqrtSearch(n, lo, mid - 1)

\* math.sqrt on a value scaled by 10^4, result scaled by 10^4
Sqrt(x) == SqrtSearch(x * 10000, 0, 10000)

Atan01(z) == (z * (7854 + (2730 * (10000 - z)) \div 10000)) \div 10000

\* math.atan2(y, x) for x, y >= 0, in units of 10^-4 rad
Atan2(y, x) ==
    IF y = 0 THEN 0
    ELSE IF x >= y THEN Atan01((y * 10000) \div x)
    ELSE 15708 - Atan01((x * 10000) \div y)

\* the distance with cos(p1) squared for cos(p1) * cos(p2)
haversine_km_from_origin(lat1, lon1, lat2, lon2) ==
    LET p1 == 2 * lat1
        dlat2 == lat2 - lat1
        dlon2 == lon2 - lon1
        a == (Sin(dlat2) * Sin(dlat2)) \div 10000
             + (((Cos(p1) * Cos(p1)) \div 10000)
                * ((Sin(dlon2) * Sin(dlon2)) \div 10000)) \div 10000
        c == 2 * Atan2(Sqrt(a), Sqrt(10000 - a))
    IN  (6371 * c) \div 10000

haversine_km(lat1, lon1, lat2, lon2) ==
    LET p1 == 2 * lat1
        p2 == 2 * lat2
        dlat2 == lat2 - lat1
        dlon2 == lon2 - lon1
        a == (Sin(dlat2) * Sin(dlat2)) \div 10000
             + (((Cos(p1) * Cos(p2)) \div 10000)
                * ((Sin(dlon2) * Sin(dlon2)) \div 10000)) \div 10000
        c == 2 * Atan2(Sqrt(a), Sqrt(10000 - a))
    IN  (6371 * c) \div 10000

(***************************************************************************)
(* Restaurant.from_dict and load_restaurants.  A record of the catalog    *)
(* file is a function from its keys; the records of the model hold values  *)
(* of the field's own type, on which str(), int() and float() change       *)
(* nothing, so only the defaults of d.get() show.                          *)
(***************************************************************************)
Get(d, key, default) == IF key \in DOMAIN d THEN d[key] ELSE default

from_dict(d) ==
    [id       |-> Get(d, "id", ""),
     rating   |-> Get(d, "rating", 0),
     smoking  |-> Get(d, "smoking", "no"),
     capacity |-> Get(d, "capacity", 0),
     lat      |-> Get(d, "lat", 0),
     lon      |-> Get(d, "lon", 0)]

load_restaurants(raw) == [i \in 1..Len(raw) |-> from_dict(raw[i])]

(***************************************************************************)
(* init_state, goto and the selectbox helpers                              *)
(***************************************************************************)
init_state ==
    /\ page = "search"
    /\ people = NonePeople
    /\ smoking = "either"
    /\ arrival_min = 0
    /\ selected_restaurant_id = NoneId
    /\ view_mode = "list"
    /\ last_results = <<>>
    /\ user_lat = DEFAULT_LAT
    /\ user_lon = DEFAULT_LON

goto(p) == page' = p

\* list.index is 0-based in the source; sequences here are 1-based
people_selectbox_index(current_people) ==
    IF \E i \in 1..Len(PEOPLE_OPTIONS) : PEOPLE_OPTIONS[i] = current_people
    THEN CHOOSE i \in 1..Len(PEOPLE_OPTIONS) : PEOPLE_OPTIONS[i] = current_people
    ELSE 1

arrival_selectbox_index(current_min) ==
    LET label == ARRIVAL_MIN_TO_LABEL(current_min, "now")
    IN  CHOOSE i \in 1..Len(ARRIVAL_LABELS) : ARRIVAL_LABELS[i] = label

(***************************************************************************)
(* Widgets and the event of a run.  A widget is [kind, id]; id is the      *)
(* venue id in the keys detail_<id>, quick_<id>, pick_<id>.  The event of  *)
(* a run is a record: click (a button, or NoClick), people and arrival     *)
(* (<<>>: the selectbox was not touched, <<v>>: the user chose v).         *)
(***************************************************************************)
Btn(kind) == [kind |-> kind, id |-> NoneId]
Card(kind, id) == [kind |-> kind, id |-> id]
NoClick == Btn("none")

NoInput == [click |-> NoClick, people |-> <<>>, arrival |-> <<>>]
Click(w) == [click |-> w, people |-> <<>>, arrival |-> <<>>]
PickPeople(v) == [click |-> NoClick, people |-> <<v>>, arrival |-> <<>>]
PickArrival(l) == [click |-> NoClick, people |-> <<>>, arrival |-> <<l>>]

\* st.button(...): True in the run that follows a click on it
button(in, w) == in.click = w

\* st.selectbox(options, index): the user's new choice, else options[index]
selectbox(options, index, pick) == IF pick # <<>> THEN pick[1] ELSE options[index]

\* the button of the event, if this run rendered it
hit(in, rendered) == IF in.click \in rendered THEN in.click ELSE NoClick

SearchWidgets ==
    {Btn("people_select"), Btn("smoke_no"), Btn("smoke_yes"), Btn("smoke_either"),
     Btn("arrival_select"), Btn("search")}

\* results_header without its back button
HeaderWidgets_no_back == {Btn("view_list"), Btn("view_map")}

\* results_header: the buttons every rendering of the results page has
HeaderWidgets == {Btn("view_list"), Btn("view_map"), Btn("back")}

(***************************************************************************)
(* filter_and_rank                                                         *)
(***************************************************************************)
\* off by one: a venue one seat short is kept
capacity_ok_off_by_one(r, n) == ~(r.capacity < n - 1)

capacity_ok(r, n) == ~(r.capacity < n)

\* preference "yes" admitting only policy "yes"
smoking_ok_exact(r, pref) ==
    IF pref # "either"
    THEN /\ ~(pref = "no" /\ r.smoking # "no")
         /\ ~(pref = "yes" /\ r.smoking # "yes")
    ELSE TRUE

smoking_ok(r, pref) ==
    IF pref # "either"
    THEN /\ ~(pref = "no" /\ r.smoking # "no")
         /\ ~(pref = "yes" /\ r.smoking = "no")
    ELSE TRUE

\* a score that rewards distance
score_of_far_first(rating, dist_km) == (rating * 2) + (dist_km * 12)

\* lines 259-262 in tenths: rating is in tenths, dist_km in whole kilometres
score_of(rating, dist_km) == (rating * 2) - (dist_km * 12)

make_row(r, lat, lon) ==
    LET dist_km == haversine_km(lat, lon, r.lat, r.lon)
    IN  [id |-> r.id, rating |-> r.rating, smoking |-> r.smoking,
         capacity |-> r.capacity, lat |-> r.lat, lon |-> r.lon,
         distance_km |-> dist_km, score |-> score_of(r.rating, dist_km)]

RECURSIVE collect_rows(_, _, _, _, _, _)
collect_rows(rs, k, n, pref, lat, lon) ==
    IF k > Len(rs) THEN <<>>
    ELSE IF capacity_ok(rs[k], n) /\ smoking_ok(rs[k], pref)
         THEN <<make_row(rs[k], lat, lon)>> \o collect_rows(rs, k + 1, n, pref, lat, lon)
         ELSE collect_rows(rs, k + 1, n, pref, lat, lon)

\* sorting by score alone
key_less_score_only(x, y) == x.score < y.score

\* the order of sort_values(["score", "rating"], ascending=False)
key_less(x, y) == x.score < y.score \/ (x.score = y.score /\ x.rating < y.rating)

\* a row goes in front of the rows of equal key
insert_row_front(sorted, r) ==
    LET k == Cardinality({i \in 1..Len(sorted) : key_less(r, sorted[i])})
    IN  SubSeq(sorted, 1, k) \o <<r>> \o SubSeq(sorted, k + 1, Len(sorted))

\* a row goes behind every row whose key is not lower than its own
insert_row(sorted, r) ==
    LET k == Cardinality({i \in 1..Len(sorted) : ~key_less(sorted[i], r)})
    IN  SubSeq(sorted, 1, k) \o <<r>> \o SubSeq(sorted, k + 1, Len(sorted))

RECURSIVE sort_prefix(_, _)
sort_prefix(rows, n) ==
    IF n = 0 THEN <<>> ELSE insert_row(sort_prefix(rows, n - 1), rows[n])

sort_values(rows) == sort_prefix(rows, Len(rows))

\* a pipeline that lists the whole catalog when no venue is eligible
rank_or_all(rs, n, pref, lat, lon) ==
    LET rows == collect_rows(rs, 1, n, pref, lat, lon)
        all == [i \in 1..Len(rs) |-> make_row(rs[i], lat, lon)]
    IN  IF rows = <<>> THEN sort_values(all) ELSE sort_values(rows)

rank(rs, n, pref, lat, lon) ==
    LET rows == collect_rows(rs, 1, n, pref, lat, lon)
    IN  IF rows = <<>> THEN rows ELSE sort_values(rows)

filter_and_rank(rs) == rank(rs, people, smoking, user_lat, user_lon)

ids_of(d) == [i \in 1..Len(d) |-> d[i].id]

head(d, n) == SubSeq(d, 1, IF Len(d) < n THEN Len(d) ELSE n)

(***************************************************************************)
(* get_restaurant_by_id: <<>> is None, <<r>> is the venue found            *)
(***************************************************************************)
falsy(rid) == rid = NoneId \/ rid = ""

get_restaurant_by_id(rs, rid) ==
    IF falsy(rid) THEN <<>>
    ELSE IF \E i \in 1..Len(rs) : rs[i].id = rid
         THEN LET k == CHOOSE i \in 1..Len(rs) :
                          /\ rs[i].id = rid
                          /\ \A j \in 1..(i - 1) : rs[j].id # rid
              IN  <<rs[k]>>
         ELSE <<>>

(***************************************************************************)
(* Pages.  Each handler is the whole run of main() on that page for the    *)
(* event `in`: it sets every variable.                                     *)
(***************************************************************************)
\* the search button without its party-size check
search_button_unchecked(in, p, pg) ==
    /\ IF button(in, Btn("search")) THEN goto("results") ELSE goto(pg)
    /\ alert' = "none"

\* lines 233-238; pg is st.session_state.page when page_search starts
search_button(in, p, pg) ==
    IF button(in, Btn("search"))
    THEN IF p = NonePeople
         THEN alert' = "people_unselected" /\ goto(pg)
         ELSE alert' = "none" /\ goto("results")
    ELSE alert' = "none" /\ goto(pg)

page_search(in, pg) ==
    LET p == selectbox(PEOPLE_OPTIONS, people_selectbox_index(people), in.people)
        s == IF button(in, Btn("smoke_no")) THEN "no"
             ELSE IF button(in, Btn("smoke_yes")) THEN "yes"
             ELSE IF button(in, Btn("smoke_either")) THEN "either"
             ELSE smoking
        a == ARRIVAL_LABEL_TO_MIN(
                 selectbox(ARRIVAL_LABELS, arrival_selectbox_index(arrival_min), in.arrival))
    IN  /\ people' = p
        /\ smoking' = s
        /\ arrival_min' = a
        /\ search_button(in, p, pg)
        /\ widgets' = SearchWidgets
        /\ shown' = {}
        /\ df' = <<>>
        /\ fault' = FALSE
        /\ UNCHANGED <<restaurants, selected_restaurant_id, view_mode, last_results,
                       user_lat, user_lon>>
        /\ clicked' = hit(in, widgets')

\* results_header: the two view buttons
results_header(in) ==
    IF button(in, Btn("view_list")) THEN "list"
    ELSE IF button(in, Btn("view_map")) THEN "map"
    ELSE view_mode

\* the id a card_restaurant / render_map button of this rendering selects, if any
selects(in, d, vm, kind) ==
    /\ in.click.kind = kind
    /\ IF vm = "map"
       THEN kind = "pick" /\ in.click.id \in Range(ids_of(head(d, 5)))
       ELSE kind \in {"detail", "quick"} /\ in.click.id \in Range(ids_of(d))

results_widgets(d, vm) ==
    IF vm = "map"
    THEN {Card("pick", id) : id \in Range(ids_of(head(d, 5)))}
    ELSE {Card("detail", id) : id \in Range(ids_of(d))}
         \cup {Card("quick", id) : id \in Range(ids_of(d))}

\* the buttons going to the next page without storing the id
select_row_keep_id(in, d, vm) ==
    IF selects(in, d, vm, "pick") \/ selects(in, d, vm, "detail")
    THEN UNCHANGED selected_restaurant_id /\ goto("detail")
    ELSE IF selects(in, d, vm, "quick")
    THEN UNCHANGED selected_restaurant_id /\ goto("done")
    ELSE UNCHANGED <<page, selected_restaurant_id>>

\* card_restaurant (list) and the pick buttons of render_map (map)
select_row(in, d, vm) ==
    IF selects(in, d, vm, "pick") \/ selects(in, d, vm, "detail")
    THEN selected_restaurant_id' = in.click.id /\ goto("detail")
    ELSE IF selects(in, d, vm, "quick")
    THEN selected_restaurant_id' = in.click.id /\ goto("done")
    ELSE UNCHANGED <<page, selected_restaurant_id>>

page_results(in) ==
    LET d == filter_and_rank(restaurants)
        vm == results_header(in)
    IN  /\ df' = d
        /\ view_mode' = vm
        /\ fault' = FALSE
        /\ UNCHANGED <<restaurants, people, smoking, arrival_min, user_lat, user_lon>>
        /\ IF button(in, Btn("back"))
           THEN /\ goto("search")
                /\ alert' = "none"
                /\ widgets' = HeaderWidgets
                /\ shown' = {}
                /\ UNCHANGED <<selected_restaurant_id, last_results>>
           ELSE IF d = <<>>
           THEN /\ alert' = "no_results"
                /\ widgets' = HeaderWidgets
                /\ shown' = {}
                /\ UNCHANGED <<page, selected_restaurant_id, last_results>>
           ELSE /\ last_results' = ids_of(d)
                /\ alert' = "none"
                /\ widgets' = HeaderWidgets \cup results_widgets(d, vm)
                /\ shown' = Range(ids_of(d))
                /\ select_row(in, d, vm)
        /\ clicked' = hit(in, widgets')

\* the not-found branch rendering the venue card all the same
detail_not_found_shows_venue(in) ==
    /\ alert' = "not_found"
    /\ widgets' = {Btn("notfound_results")}
    /\ shown' = {selected_restaurant_id}
    /\ fault' = FALSE
    /\ IF button(in, Btn("notfound_results")) THEN goto("results") ELSE UNCHANGED page

\* page_detail, lines 417-421
detail_not_found(in) ==
    /\ alert' = "not_found"
    /\ widgets' = {Btn("notfound_results")}
    /\ shown' = {}
    /\ fault' = FALSE
    /\ IF button(in, Btn("notfound_results")) THEN goto("results") ELSE UNCHANGED page

\* the not-found branch of page_detail pasted into page_done
done_not_found_to_results(in) ==
    /\ alert' = "not_found"
    /\ widgets' = {Btn("notfound_search")}
    /\ shown' = {}
    /\ fault' = FALSE
    /\ UNCHANGED selected_restaurant_id
    /\ IF button(in, Btn("notfound_search")) THEN goto("results") ELSE UNCHANGED page

\* page_done, lines 465-469
done_not_found(in) ==
    /\ alert' = "not_found"
    /\ widgets' = {Btn("notfound_search")}
    /\ shown' = {}
    /\ fault' = FALSE
    /\ UNCHANGED selected_restaurant_id
    /\ IF button(in, Btn("notfound_search")) THEN goto("search") ELSE UNCHANGED page

\* int(st.session_state.people) raises TypeError on None: the run ends there
page_detail(in) ==
    LET r == get_restaurant_by_id(restaurants, selected_restaurant_id)
    IN  /\ df' = <<>>
        /\ UNCHANGED <<restaurants, people, smoking, arrival_min, user_lat, user_lon,
                       selected_restaurant_id, view_mode, last_results>>
        /\ IF r = <<>>
           THEN detail_not_found(in)
           ELSE IF people = NonePeople
           THEN /\ alert' = "none"
                /\ widgets' = {}
                /\ shown' = {r[1].id}
                /\ fault' = TRUE
                /\ UNCHANGED page
           ELSE /\ alert' = "none"
                /\ widgets' = {Btn("reserve"), Btn("to_results"), Btn("to_search")}
                /\ shown' = {r[1].id}
                /\ fault' = FALSE
                /\ IF button(in, Btn("to_search")) THEN goto("search")
                   ELSE IF button(in, Btn("to_results")) THEN goto("results")
                   ELSE IF button(in, Btn("reserve")) THEN goto("done")
                   ELSE UNCHANGED page
        /\ clicked' = hit(in, widgets')

\* a done page whose top button also clears the party size
page_done_new_search(in) ==
    LET r == get_restaurant_by_id(restaurants, selected_restaurant_id)
    IN  /\ df' = <<>>
        /\ UNCHANGED <<restaurants, smoking, arrival_min, user_lat, user_lon,
                       view_mode, last_results>>
        /\ IF r = <<>>
           THEN done_not_found(in) /\ UNCHANGED people
           ELSE IF people = NonePeople
           THEN /\ alert' = "none"
                /\ widgets' = {}
                /\ shown' = {}
                /\ fault' = TRUE
                /\ UNCHANGED <<page, selected_restaurant_id, people>>
           ELSE /\ alert' = "none"
                /\ widgets' = {Btn("top")}
                /\ shown' = {r[1].id}
                /\ fault' = FALSE
                /\ IF button(in, Btn("top"))
                   THEN /\ selected_restaurant_id' = NoneId
                        /\ people' = NonePeople
                        /\ goto("search")
                   ELSE UNCHANGED <<page, selected_restaurant_id, people>>
        /\ clicked' = hit(in, widgets')

page_done(in) ==
    LET r == get_restaurant_by_id(restaurants, selected_restaurant_id)
    IN  /\ df' = <<>>
        /\ UNCHANGED <<restaurants, people, smoking, arrival_min, user_lat, user_lon,
                       view_mode, last_results>>
        /\ IF r = <<>>
           THEN done_not_found(in)
           ELSE IF people = NonePeople
           THEN /\ alert' = "none"
                /\ widgets' = {}
                /\ shown' = {}
                /\ fault' = TRUE
                /\ UNCHANGED <<page, selected_restaurant_id>>
           ELSE /\ alert' = "none"
                /\ widgets' = {Btn("top")}
                /\ shown' = {r[1].id}
                /\ fault' = FALSE
                /\ IF button(in, Btn("top"))
                   THEN selected_restaurant_id' = NoneId /\ goto("search")
                   ELSE UNCHANGED <<page, selected_restaurant_id>>
        /\ clicked' = hit(in, widgets')

(***************************************************************************)
(* main: one action per page and kind of event.  An event on a widget that *)
(* the run does not reach (a click on the screen of the page just left)    *)
(* has no effect: that run is the page's Show action.                      *)
(***************************************************************************)
on_page(p) == restaurants # <<>> /\ page = p

\* main, lines 505-508: no catalog, st.stop()
MainStop ==
    /\ restaurants = <<>>
    /\ alert' = "no_data"
    /\ widgets' = {}
    /\ shown' = {}
    /\ df' = <<>>
    /\ clicked' = NoClick
    /\ fault' = FALSE
    /\ UNCHANGED <<restaurants, page, people, smoking, arrival_min,
                   selected_restaurant_id, view_mode, last_results, user_lat, user_lon>>

SearchShow == on_page("search") /\ page_search(NoInput, page)

SearchPeople ==
    /\ on_page("search")
    /\ Btn("people_select") \in widgets
    /\ \E v \in Range(PEOPLE_OPTIONS) : page_search(PickPeople(v), page)

SearchSmoking ==
    /\ on_page("search")
    /\ \E k \in {"smoke_no", "smoke_yes", "smoke_either"} :
          Btn(k) \in widgets /\ page_search(Click(Btn(k)), page)

SearchArrival ==
    /\ on_page("search")
    /\ Btn("arrival_select") \in widgets
    /\ \E l \in Range(ARRIVAL_LABELS) : page_search(PickArrival(l), page)

SearchSubmit ==
    /\ on_page("search")
    /\ Btn("search") \in widgets
    /\ page_search(Click(Btn("search")), page)

ResultsShow == on_page("results") /\ people # NonePeople /\ page_results(NoInput)

ResultsView ==
    /\ on_page("results") /\ people # NonePeople
    /\ \E k \in {"view_list", "view_map"} :
          Btn(k) \in widgets /\ page_results(Click(Btn(k)))

ResultsBack ==
    /\ on_page("results") /\ people # NonePeople
    /\ Btn("back") \in widgets
    /\ page_results(Click(Btn("back")))

ResultsDetail ==
    /\ on_page("results") /\ people # NonePeople
    /\ \E w \in widgets : w.kind = "detail" /\ page_results(Click(w))

ResultsQuick ==
    /\ on_page("results") /\ people # NonePeople
    /\ \E w \in widgets : w.kind = "quick" /\ page_results(Click(w))

ResultsPick ==
    /\ on_page("results") /\ people # NonePeople
    /\ \E w \in widgets : w.kind = "pick" /\ page_results(Click(w))

DetailShow == on_page("detail") /\ page_detail(NoInput)

DetailReserve ==
    on_page("detail") /\ Btn("reserve") \in widgets /\ page_detail(Click(Btn("reserve")))

DetailToResults ==
    on_page("detail") /\ Btn("to_results") \in widgets /\ page_detail(Click(Btn("to_results")))

DetailToSearch ==
    on_page("detail") /\ Btn("to_search") \in widgets /\ page_detail(Click(Btn("to_search")))

DetailNotFoundBack ==
    /\ on_page("detail")
    /\ Btn("notfound_results") \in widgets
    /\ page_detail(Click(Btn("notfound_results")))

\* main, lines 516-522: results without a party size; goto("search") and
\* st.rerun(), so the same request is then served by page_search
ResultsGuard == on_page("results") /\ people = NonePeople /\ page_search(NoInput, "search")

\* the events the screen of the last run allows
Inputs ==
    {NoInput}
    \cup {Click(w) : w \in widgets \ {Btn("people_select"), Btn("arrival_select")}}
    \cup (IF Btn("people_select") \in widgets
          THEN {PickPeople(v) : v \in Range(PEOPLE_OPTIONS)} ELSE {})
    \cup (IF Btn("arrival_select") \in widgets
          THEN {PickArrival(l) : l \in Range(ARRIVAL_LABELS)} ELSE {})

\* main's last branch without line 528: the page value is left as it was
PageFallback_keep_page ==
    /\ restaurants # <<>>
    /\ page \notin {"search", "results", "detail", "done"}
    /\ \E in \in Inputs : page_search(in, page)

\* main, lines 527-529: an unknown page value
PageFallback ==
    /\ restaurants # <<>>
    /\ page \notin {"search", "results", "detail", "done"}
    /\ \E in \in Inputs : page_search(in, "search")

DoneShow == on_page("done") /\ page_done(NoInput)

DoneTop == on_page("done") /\ Btn("top") \in widgets /\ page_done(Click(Btn("top")))

DoneNotFoundBack ==
    /\ on_page("done")
    /\ Btn("notfound_search") \in widgets
    /\ page_done(Click(Btn("notfound_search")))

(***************************************************************************)
(* The catalogs of the model                                               *)
(***************************************************************************)
\* records of restaurants.json; the second has no "id" key
RawPool ==
    { [id |-> "a", rating |-> 45, smoking |-> "no", capacity |-> 4, lat |-> 36, lon |-> 140],
      [rating |-> 45, smoking |-> "separated", capacity |-> 8, lat |-> 36, lon |-> 140],
      [id |-> "c", rating |-> 40, smoking |-> "yes", capacity |-> 6, lat |-> 40, lon |-> 140] }

distinct_ids(rs) == \A i, j \in 1..Len(rs) : i # j => rs[i].id # rs[j].id

SeqsUpTo(S, n) == UNION {[1..k -> S] : k \in 0..n}

Catalogs ==
    {c \in {load_restaurants(raw) : raw \in SeqsUpTo(RawPool, MaxCatalog)} : distinct_ids(c)}

Init ==
    /\ restaurants \in Catalogs
    /\ init_state
    /\ widgets = {}
    /\ alert = "none"
    /\ shown = {}
    /\ df = <<>>
    /\ clicked = NoClick
    /\ fault = FALSE

Next ==
    \/ MainStop
    \/ SearchShow
    \/ SearchPeople
    \/ SearchSmoking
    \/ SearchArrival
    \/ SearchSubmit
    \/ ResultsShow
    \/ ResultsView
    \/ ResultsBack
    \/ ResultsDetail
    \/ ResultsQuick
    \/ ResultsPick
    \/ DetailShow
    \/ DetailReserve
    \/ DetailToResults
    \/ DetailToSearch
    \/ DetailNotFoundBack
    \/ DoneShow
    \/ DoneTop
    \/ DoneNotFoundBack

Spec == Init /\ [][Next]_vars

(***************************************************************************)
(* The search pipeline on its own: the session right after the search     *)
(* button was accepted, for every catalog of RichCatalogs and every        *)
(* criteria the search page can set; the step renders the results page.     *)
(***************************************************************************)
PositionIds == <<"a", "b", "c", "d", "e", "f">>

\* (43,132) is 1074 km and (44,134) is 1066 km from the default location:
\* rating 48 at the first and rating 0 at the second have the same score
RichSpots ==
    { [rating |-> 0, lat |-> 44, lon |-> 134],
      [rating |-> 48, lat |-> 43, lon |-> 132],
      [rating |-> 48, lat |-> 44, lon |-> 134] }

RichRaw(i) ==
    { [id |-> PositionIds[i], rating |-> sp.rating, smoking |-> sm, capacity |-> c,
       lat |-> sp.lat, lon |-> sp.lon] :
          sp \in RichSpots, sm \in {"no", "yes", "separated"}, c \in {2, 4} }

RECURSIVE RichRawCatalogs(_)
RichRawCatalogs(k) ==
    IF k = 0 THEN {<<>>}
    ELSE {Append(c, v) : c \in RichRawCatalogs(k - 1), v \in RichRaw(k)}

RichCatalogs ==
    UNION {{load_restaurants(raw) : raw \in RichRawCatalogs(k)} : k \in 1..MaxCatalog}

InitSearch ==
    /\ restaurants \in RichCatalogs
    /\ page = "results"
    /\ people \in Range(PEOPLE_OPTIONS) \ {NonePeople}
    /\ smoking \in {"no", "yes", "either"}
    /\ arrival_min = 0
    /\ selected_restaurant_id = NoneId
    /\ view_mode = "list"
    /\ last_results = <<>>
    /\ user_lat = DEFAULT_LAT
    /\ user_lon = DEFAULT_LON
    /\ widgets = SearchWidgets
    /\ alert = "none"
    /\ shown = {}
    /\ df = <<>>
    /\ clicked = Btn("search")
    /\ fault = FALSE

NextSearch == ResultsShow

SpecSearch == InitSearch /\ [][NextSearch]_vars

(***************************************************************************)
(* Properties                                                              *)
(***************************************************************************)
\* the last run rendered the results page: df is what filter_and_rank returned
ResultsRendered == Btn("back") \in widgets

\* the position of the venue with identifier id in the catalog
CatalogIndex(id) == CHOOSE i \in 1..Len(restaurants) : restaurants[i].id = id

\* C1: a click on the search button while the party size is None leaves the
\* page on search, runs no search and raises the validation message; the page
\* goes from search to results only by that button and with a party size set.
C1_SearchNeedsPartySize ==
    [][/\ (page = "search" /\ people = NonePeople /\ clicked' = Btn("search"))
           => (page' = "search" /\ df' = <<>> /\ alert' = "people_unselected")
       /\ (page = "search" /\ page' = "results")
           => (people' # NonePeople /\ clicked' = Btn("search"))]_vars

C1_Witness ==
    /\ page = "search" /\ people = NonePeople
    /\ clicked = Btn("search") /\ alert = "people_unselected"

\* C2: no venue of the catalog whose capacity is below the party size is in
\* the output of filter_and_rank, and no row of the output has such a capacity.
C2_NoUndersizedVenue ==
    ResultsRendered =>
        /\ \A i \in 1..Len(df) : df[i].capacity >= people
        /\ \A i \in 1..Len(restaurants) :
               restaurants[i].capacity < people
                   => restaurants[i].id \notin Range(ids_of(df))

C2_Witness ==
    /\ ResultsRendered /\ df # <<>>
    /\ \E i \in 1..Len(restaurants) : restaurants[i].capacity < people

\* smoking eligibility as the claim words it
C3_Eligible(v) ==
    CASE smoking = "no" -> v.smoking = "no"
      [] smoking = "yes" -> v.smoking \in {"yes", "separated"}
      [] smoking = "either" -> TRUE

\* C3: a venue with capacity >= party size is in the output exactly when it
\* passes smoking eligibility.
C3_SmokingEligibility ==
    ResultsRendered =>
        \A i \in 1..Len(restaurants) :
            restaurants[i].capacity >= people
                => (restaurants[i].id \in Range(ids_of(df)) <=> C3_Eligible(restaurants[i]))

C3_Witness ==
    /\ ResultsRendered /\ smoking = "yes"
    /\ \E i, j \in 1..Len(restaurants) :
          /\ restaurants[i].capacity >= people /\ restaurants[i].smoking = "separated"
          /\ restaurants[i].id \in Range(ids_of(df))
          /\ restaurants[j].capacity >= people /\ restaurants[j].smoking = "no"
          /\ restaurants[j].id \notin Range(ids_of(df))

\* (score, rating) of x strictly below that of y, score first
C4_Lower(x, y) == x.score < y.score \/ (x.score = y.score /\ x.rating < y.rating)

\* C4: in the output no earlier row has a strictly lower (score, rating) pair
\* than a later row.
C4_SortedDescending ==
    ResultsRendered =>
        \A i, j \in 1..Len(df) : i < j => ~C4_Lower(df[i], df[j])

\* two rows of equal score that the rating orders against the catalog order
C4_Witness ==
    /\ ResultsRendered
    /\ \E i, j \in 1..Len(df) :
          /\ i < j /\ df[i].score = df[j].score /\ df[i].rating > df[j].rating
          /\ CatalogIndex(df[i].id) > CatalogIndex(df[j].id)

\* C5: rows of identical score and identical rating keep the relative order
\* their venues have in the catalog.
C5_StableSort ==
    ResultsRendered =>
        \A i, j \in 1..Len(df) :
            (i < j /\ df[i].score = df[j].score /\ df[i].rating = df[j].rating)
                => CatalogIndex(df[i].id) < CatalogIndex(df[j].id)

C5_Witness ==
    /\ ResultsRendered
    /\ \E i, j \in 1..Len(df) :
          i < j /\ df[i].score = df[j].score /\ df[i].rating = df[j].rating

\* the transitions the specification lists
ListedTransitions ==
    { <<"search", "results">>, <<"results", "detail">>, <<"results", "search">>,
      <<"detail", "done">>, <<"detail", "results">>, <<"detail", "search">>,
      <<"done", "search">> }

\* C6 as stated: every change of page is a listed transition made by a click;
\* done is entered only from detail.
C6_OnlyListedTransitions ==
    [][page' # page =>
          (<<page, page'>> \in ListedTransitions /\ clicked' # NoClick)]_vars

\* C6 amended: every change of page is a listed transition or results -> done
\* (the quick-reserve button of a card), and is made by a click; done is
\* entered only from detail or, by quick reserve, from results.
C6_ListedOrQuickReserve ==
    [][page' # page =>
          /\ <<page, page'>> \in ListedTransitions \cup {<<"results", "done">>}
          /\ clicked' # NoClick
          /\ (<<page, page'>> = <<"results", "done">> => clicked'.kind = "quick")]_vars

C6_Witness == page = "done" /\ clicked.kind = "quick"

\* C7: a run of the detail or done page whose selected id does not resolve
\* ends without a fault, reports not-found, renders no venue, and offers one
\* button, which leads back to results (detail) or to search (done).
C7_NotFoundHandled ==
    [][(/\ restaurants # <<>>
        /\ page \in {"detail", "done"}
        /\ get_restaurant_by_id(restaurants, selected_restaurant_id) = <<>>)
       => /\ fault' = FALSE
          /\ alert' = "not_found"
          /\ shown' = {}
          /\ IF page = "detail"
             THEN /\ widgets' = {Btn("notfound_results")}
                  /\ page' = IF clicked' = Btn("notfound_results") THEN "results" ELSE page
             ELSE /\ widgets' = {Btn("notfound_search")}
                  /\ page' = IF clicked' = Btn("notfound_search") THEN "search" ELSE page]_vars

\* the detail page left by its not-found button
C7_Witness ==
    /\ page = "results" /\ alert = "not_found"
    /\ clicked = Btn("notfound_results") /\ ~fault /\ shown = {}

\* C8: every step from done to search leaves selected_restaurant_id None.
C8_DoneToSearchClears ==
    [][(page = "done" /\ page' = "search") => selected_restaurant_id' = NoneId]_vars

\* C9: a step from results to detail is made by a detail or pick button, stores
\* that button's id, and the id is in the DataFrame of that rendering.
C9_DetailSetsSelection ==
    [][(page = "results" /\ page' = "detail")
       => /\ clicked'.kind \in {"detail", "pick"}
          /\ selected_restaurant_id' = clicked'.id
          /\ selected_restaurant_id' \in Range(ids_of(df'))]_vars

\* a second selection: the id stored differs from the one stored before
C9_Witness ==
    /\ page = "detail" /\ clicked.kind \in {"detail", "pick"}
    /\ selected_restaurant_id = clicked.id
    /\ Len(last_results) >= 2 /\ selected_restaurant_id = last_results[2]

\* C10: every step into done is taken with a selected id that resolves, and
\* the done page never reports not-found.
C10_DoneAlwaysResolves ==
    [][/\ (page # "done" /\ page' = "done")
           => get_restaurant_by_id(restaurants, selected_restaurant_id') # <<>>
       /\ (restaurants # <<>> /\ page = "done") => alert' # "not_found"]_vars

\* the last run rendered the detail page / the done page
DetailRendered == page = "detail" /\ df = <<>>

DoneRendered == page = "done" /\ df = <<>> /\ clicked = NoClick

Resolves == get_restaurant_by_id(restaurants, selected_restaurant_id) # <<>>

\* a button of the detail screen / the done screen that leaves the page
DetailWayBack ==
    \/ ENABLED (DetailToSearch /\ page' = "search")
    \/ ENABLED (DetailNotFoundBack /\ page' = "results")

DoneWayBack == ENABLED ((DoneTop \/ DoneNotFoundBack) /\ page' = "search")

\* C11: no state is a dead end.  On the results page a run is always possible,
\* every run renders the back button, also for an empty result, and a click on
\* it leads to search; on the detail and done pages a run is always possible
\* and the screen it renders has a button leading to search, or to results on
\* the detail page; when the venue resolves the rendered detail page has both
\* detail -> results and detail -> search enabled and the rendered done page
\* has done -> search enabled.
C11_NoDeadEnd ==
    /\ [](page = "results" => restaurants # <<>> /\ people # NonePeople)
    /\ [][page = "results"
             => /\ Btn("back") \in widgets'
                /\ clicked' = Btn("back") => page' = "search"]_vars
    /\ [](page = "detail" => ENABLED (DetailShow /\ DetailWayBack'))
    /\ [](page = "done" => ENABLED (DoneShow /\ DoneWayBack'))
    /\ []((DetailRendered /\ Resolves)
             => /\ ENABLED (DetailToResults /\ page' = "results")
                /\ ENABLED (DetailToSearch /\ page' = "search"))
    /\ []((DoneRendered /\ Resolves) => ENABLED (DoneTop /\ page' = "search"))

\* the results page showing an empty result with its back button
C11_Witness == page = "results" /\ alert = "no_results" /\ Btn("back") \in widgets

\* identifiers no venue of the pool holds
AbsentIds == {"zz", NoneId}

\* C12: looking a venue of the catalog up by its identifier returns that venue,
\* also for the venue whose identifier is the load default "", and an
\* identifier no venue holds gives None.
C12_FindByIdRoundTrip ==
    /\ \A i \in 1..Len(restaurants) :
          get_restaurant_by_id(restaurants, restaurants[i].id) = <<restaurants[i]>>
    /\ \A rid \in AbsentIds : get_restaurant_by_id(restaurants, rid) = <<>>

(***************************************************************************)
(* Recovery from an unknown page value: sessions whose page is none of the *)
(* four pages, with any criteria, selection and view mode, on the screen   *)
(* of the search page, of the results page, or on no screen at all.        *)
(***************************************************************************)
Pages == {"search", "results", "detail", "done"}

BadPages == {"", "top"}

InitRecover ==
    /\ restaurants \in Catalogs
    /\ page \in BadPages
    /\ people \in Range(PEOPLE_OPTIONS)
    /\ smoking \in {"no", "yes", "either"}
    /\ arrival_min \in {0, 30}
    /\ selected_restaurant_id \in {NoneId, "a"}
    /\ view_mode \in {"list", "map"}
    /\ last_results \in {<<>>, <<"a">>}
    /\ user_lat = DEFAULT_LAT
    /\ user_lon = DEFAULT_LON
    /\ widgets \in {{}, SearchWidgets, HeaderWidgets}
    /\ alert = "none"
    /\ shown = {}
    /\ df = <<>>
    /\ clicked = NoClick
    /\ fault = FALSE

NextRecover == MainStop \/ PageFallback

SpecRecover == InitRecover /\ [][NextRecover]_vars

\* C13: a run of main() that reaches the dispatch with an unknown page value
\* renders the search page and leaves the page at search, or at results when
\* the request is an accepted click on the search button; the selected
\* identifier, the last results, the view mode and the user coordinate are
\* unchanged, and a criterion changes only if the request sets it.
C13_FallbackToSearch ==
    [][(restaurants # <<>> /\ page \notin Pages)
          => /\ widgets' = SearchWidgets
             /\ page' = IF clicked' = Btn("search") /\ people' # NonePeople
                        THEN "results" ELSE "search"
             /\ UNCHANGED <<selected_restaurant_id, last_results, view_mode,
                            user_lat, user_lon, restaurants>>
             /\ Btn("people_select") \notin widgets => people' = people
             /\ Btn("arrival_select") \notin widgets => arrival_min' = arrival_min
             /\ clicked'.kind \notin {"smoke_no", "smoke_yes", "smoke_either"}
                    => smoking' = smoking]_vars

\* a recovered session that kept its selection, its last results and its view
C13_Witness ==
    /\ page = "search"
    /\ widgets = SearchWidgets
    /\ selected_restaurant_id = "a"
    /\ last_results = <<"a">>
    /\ view_mode = "map"
    /\ people = 3

\* C14: the party size, the smoking preference, the arrival offset and the
\* user coordinate change only in a run of the search page: every run of the
\* results page (the search pipeline included), of the detail page and of the
\* done page leaves them as they were.
C14_CriteriaFrame ==
    [][page # "search" => UNCHANGED <<people, smoking, arrival_min, user_lat, user_lon>>]_vars

\* back on the search page from the done page with the criteria still set
C14_Witness ==
    /\ page = "search"
    /\ clicked = Btn("top")
    /\ people = 2
    /\ smoking = "yes"
    /\ arrival_min = 30

\* C15: filter_and_rank returns no row for the empty catalog and for a catalog
\* in which every venue is too small or fails the smoking preference; a run
\* of the results page on an empty result raises no error, renders no venue
\* and no venue button, leaves the selected identifier alone and shows the
\* no-results message, unless the run is the click on back, which leaves for
\* the search page.
C15_EmptyResult ==
    /\ [](people # NonePeople => filter_and_rank(<<>>) = <<>>)
    /\ [][page = "results"
             => /\ (\A i \in 1..Len(restaurants) :
                        \/ restaurants[i].capacity < people
                        \/ ~C3_Eligible(restaurants[i]))
                    => df' = <<>>
                /\ df' = <<>>
                    => /\ fault' = FALSE
                       /\ shown' = {}
                       /\ \A w \in widgets' : w.id = NoneId
                       /\ UNCHANGED <<selected_restaurant_id, restaurants>>
                       /\ IF clicked' = Btn("back")
                          THEN page' = "search"
                          ELSE page' = "results" /\ alert' = "no_results"]_vars

\* the no-results message in the map view, no venue selected
C15_Witness ==
    /\ page = "results"
    /\ alert = "no_results"
    /\ view_mode = "map"
    /\ restaurants # <<>>
    /\ selected_restaurant_id = NoneId

\* C16: the score of every row is rating * 2.0 - distance_km * 1.2 (in tenths:
\* 2 * rating - 12 * distance); at the row's distance every higher rating up to
\* MaxRating scores strictly higher, at the row's rating every larger distance
\* up to MaxKmStep further scores strictly lower, and two rows of one result
\* compare the same way.
C16_ScoreMonotone ==
    ResultsRendered =>
        /\ \A i \in 1..Len(df) :
              /\ df[i].score = (2 * df[i].rating) - (12 * df[i].distance_km)
              /\ \A r2 \in 0..MaxRating :
                    /\ r2 > df[i].rating => score_of(r2, df[i].distance_km) > df[i].score
                    /\ r2 < df[i].rating => score_of(r2, df[i].distance_km) < df[i].score
              /\ \A k \in 1..MaxKmStep :
                    score_of(df[i].rating, df[i].distance_km + k) < df[i].score
        /\ \A i, j \in 1..Len(df) :
              /\ (df[i].distance_km = df[j].distance_km /\ df[i].rating < df[j].rating)
                     => df[i].score < df[j].score
              /\ (df[i].rating = df[j].rating /\ df[i].distance_km < df[j].distance_km)
                     => df[i].score > df[j].score

\* a result with two venues of one rating at different distances
C16_Witness ==
    /\ ResultsRendered
    /\ \E i, j \in 1..Len(df) :
          df[i].rating = df[j].rating /\ df[i].distance_km < df[j].distance_km

(***************************************************************************)
(* The distance on its own: two venues on a grid of coordinates that       *)
(* holds the default location, searched by one person; the step renders    *)
(* the results page, which computes the distance of each from the user.    *)
(***************************************************************************)
GridLats == {DEFAULT_LAT + (3 * k) : k \in 0..MaxGrid}

GridLons == {DEFAULT_LON - (4 * k) : k \in 0..MaxGrid}

GridRaw(i) ==
    { [id |-> PositionIds[i], rating |-> 40, smoking |-> "no", capacity |-> 8,
       lat |-> la, lon |-> lo] : la \in GridLats, lo \in GridLons }

GridCatalogs == {load_restaurants(<<v, w>>) : v \in GridRaw(1), w \in GridRaw(2)}

InitDistance ==
    /\ restaurants \in GridCatalogs
    /\ page = "results"
    /\ people = 1
    /\ smoking = "either"
    /\ arrival_min = 0
    /\ selected_restaurant_id = NoneId
    /\ view_mode = "list"
    /\ last_results = <<>>
    /\ user_lat = DEFAULT_LAT
    /\ user_lon = DEFAULT_LON
    /\ widgets = SearchWidgets
    /\ alert = "none"
    /\ shown = {}
    /\ df = <<>>
    /\ clicked = Btn("search")
    /\ fault = FALSE

NextDistance == ResultsShow

SpecDistance == InitDistance /\ [][NextDistance]_vars

\* C17: the distance of a row is the distance measured from the venue to the
\* user as well, it is 0 for a venue at the user's location, and between any
\* two venues of the catalog the distance is the same in both directions and 0
\* from a venue to itself.
C17_HaversineSymmetric ==
    ResultsRendered =>
        /\ \A i \in 1..Len(df) :
              /\ df[i].distance_km = haversine_km(df[i].lat, df[i].lon, user_lat, user_lon)
              /\ (df[i].lat = user_lat /\ df[i].lon = user_lon) => df[i].distance_km = 0
        /\ \A i, j \in 1..Len(restaurants) :
              /\ haversine_km(restaurants[i].lat, restaurants[i].lon,
                              restaurants[j].lat, restaurants[j].lon)
                 = haversine_km(restaurants[j].lat, restaurants[j].lon,
                                restaurants[i].lat, restaurants[i].lon)
              /\ haversine_km(restaurants[i].lat, restaurants[i].lon,
                              restaurants[i].lat, restaurants[i].lon) = 0

\* a result with a venue at the user's location and one off it in both axes
C17_Witness ==
    /\ ResultsRendered
    /\ \E i, j \in 1..Len(df) :
          /\ df[i].distance_km = 0
          /\ df[j].distance_km > 0
          /\ df[j].lat # user_lat
          /\ df[j].lon # user_lon

\* C18: on the results, detail and done pages the party size is set, no run
\* meets int(None), and the party size goes back to None only in a run of the
\* search page.
C18_PartySizeSet ==
    /\ [](page \in {"results", "detail", "done"} => people # NonePeople)
    /\ [](~fault)
    /\ [][(people # NonePeople /\ people' = NonePeople) => page = "search"]_vars

\* back on the search page after a search, the party size taken away again
C18_Witness ==
    /\ page = "search"
    /\ people = NonePeople
    /\ last_results # <<>>
    /\ clicked = NoClick

\* C19: on the detail and done pages the selected identifier is set and is one
\* of the stored last results.
C19_SelectionInLastResults ==
    page \in {"detail", "done"}
        => /\ selected_restaurant_id # NoneId
           /\ selected_restaurant_id \in Range(last_results)

\* the second venue of a result of two, on the detail page
C19_Witness ==
    /\ DetailRendered
    /\ Len(last_results) = 2
    /\ selected_restaurant_id = last_results[2]

\* C20: after every run of the results page but the click on back, the stored
\* last results are the identifiers of the result just computed, in its order;
\* they are empty when no venue is eligible.
C20_LastResultsCurrent ==
    [][(page = "results" /\ clicked' # Btn("back")) => last_results' = ids_of(df')]_vars

====
